---- MODULE Spec2Model ----
(***************************************************************************)
(* UniPlugin (note-taking plugin): the status-bar line counter and the     *)
(* trigger expander ("mathSimplifier"), extended rule catalog.             *)
(*                                                                         *)
(* Text is a sequence of one-character strings.  The backtick cannot be    *)
(* written inside a TLA+ string, so the character U+0060 is the string BT; *)
(* the white space characters that have no escape are named by code point. *)
(* Positions are {line, ch}, both 0-based, as in the editor interface.     *)
(***************************************************************************)
EXTENDS Integers, Sequences, FiniteSets, TLC

VARIABLES
    value,          \* editor.getDoc().getValue(): the buffer of the active document
    cursor,         \* editor.getCursor(): [line, ch]
    lastIndex,      \* lastIndex of each RegExp object of `patterns` (they carry the g flag)
    statusBarItem,  \* [hidden, text, attached]: the status bar element
    activeFile,     \* workspace.getActiveFile(): a file name or NoFile
    vault,          \* file name -> text stored in the vault
    reads,          \* the vault.read promises not yet resolved: set of [id, file]
    nextRead,       \* number of reads started so far
    pending,        \* editor-change events raised by replaceRange and not yet handled
    events,         \* number of editor-change events raised by the user so far
    chain,          \* steps since the last user event: handlers the expander's own
                    \* replacements started, and handlers that went on after one
    negColumn,      \* how the host resolves a negative column: "clamp" or "fromEnd"
    dispatch,       \* when the host raises the editor-change of a replaceRange:
                    \* "nested" (inside the call) or "queued" (after the handler)
    stack,          \* the editor-change handlers waiting inside a replaceRange call,
                    \* outermost first (see Frame)
    h,              \* history of the last editor-change event (see NoHistory)
    lastArg         \* history: the last argument given to updateLineCount since the
                    \* plugin was loaded or unloaded, NotCalled when there was none

vars == << value, cursor, lastIndex, statusBarItem, activeFile, vault, reads,
           nextRead, pending, events, chain, negColumn, dispatch, stack, h, lastArg >>

(***************************************************************************)
(* Bounds of the model.                                                    *)
(***************************************************************************)
MaxEvents == 2      \* editor-change events raised by the user
MaxReads == 2       \* active-leaf-change events that start a read
MaxChain == 32      \* steps the expander takes after one user event

(***************************************************************************)
(* Characters.                                                             *)
(***************************************************************************)
BT == "BACKTICK"
NL == "\n"
TAB == "\t"
DIGIT == "[0-9]"
Digits == <<"0", "1", "2", "3", "4", "5", "6", "7", "8", "9">>
lowerCase == <<"a", "b", "c", "d", "e", "f", "g", "h", "i", "j", "k", "l", "m",
               "n", "o", "p", "q", "r", "s", "t", "u", "v", "w", "x", "y", "z">>
upperCase == <<"A", "B", "C", "D", "E", "F", "G", "H", "I", "J", "K", "L", "M",
               "N", "O", "P", "Q", "R", "S", "T", "U", "V", "W", "X", "Y", "Z">>

IsDigit(c) == \E k \in 1..10 : Digits[k] = c
CR == "\r"
FF == "\f"
VT == "U+000B"
NBSP == "U+00A0"
\* the other characters of the class \s: Unicode space separators, the line and
\* paragraph separators and the byte order mark
UnicodeSpaces ==
    {NBSP, "U+1680", "U+2000", "U+2001", "U+2002", "U+2003", "U+2004", "U+2005",
     "U+2006", "U+2007", "U+2008", "U+2009", "U+200A", "U+2028", "U+2029",
     "U+202F", "U+205F", "U+3000", "U+FEFF"}
\* the class \s of a regular expression
WhiteSpace == {" ", TAB, NL, VT, FF, CR} \cup UnicodeSpaces
IsSpace(c) == c \in WhiteSpace

\* the i flag: characters are compared after case folding
Canonicalize(c) ==
    IF \E k \in 1..26 : upperCase[k] = c
    THEN lowerCase[CHOOSE k \in 1..26 : upperCase[k] = c]
    ELSE c

Min(S) == CHOOSE x \in S : \A y \in S : x <= y
Max(S) == CHOOSE x \in S : \A y \in S : x >= y
Last(s) == s[Len(s)]
\* the element of a one-element set; Only({F(x) : x \in {e}}) is F(e) with e
\* evaluated once
Only(S) == CHOOSE x \in S : TRUE

RECURSIVE Repeat(_, _)
\* String.prototype.repeat for count >= 0
Repeat(c, count) == IF count <= 0 THEN << >> ELSE <<c>> \o Repeat(c, count - 1)

(***************************************************************************)
(* Number(ch) of a one-character string, and its text in a template.       *)
(***************************************************************************)
\* a JavaScript number: NaN, or the integer n
NaN == [nan |-> TRUE, n |-> 0]
Number(c) ==
    IF IsDigit(c) THEN [nan |-> FALSE, n |-> (CHOOSE k \in 1..10 : Digits[k] = c) - 1]
    ELSE NaN
\* a number inside a template literal
NumberText(x) == IF x.nan THEN <<"N", "a", "N">> ELSE <<Digits[x.n + 1]>>

RECURSIVE Decimal(_)
\* the decimal text of a non-negative integer
Decimal(n) == IF n < 10 THEN <<Digits[n + 1]>> ELSE Decimal(n \div 10) \o <<Digits[(n % 10) + 1]>>

(***************************************************************************)
(* The rule list.                                                          *)
(***************************************************************************)
patterns ==
  << <<"a", "r", "r", DIGIT>>,
     <<"m", DIGIT, ",", DIGIT>>,
     <<"\\", "p", "a", "r", "s">>,
     <<"\\", "c", "o", "d", "e">>,
     <<"\\", "p", "r", "g", ":", "j", "s">>,
     <<"\\", "p", "r", "g", ":", "p", "y">>,
     <<"\\", "p", "r", "g", ":", "c", "p", "p">>,
     <<"\\", "p", "r", "g", ":", "j", "a", "v", "a">>,
     <<"\\", "p", "r", "g", ":", "p", "s", "c">>,
     <<"\\", "s", "y", "s">>,
     <<"\\", "d", "e", "f", "n">> >>

Indexes == 0..(Len(patterns) - 1)
pattern(index) == patterns[index + 1]

\* faulty variant: the digit class accepts any character
ElemMatchesAnyDigit(e, c) == e = DIGIT \/ Canonicalize(e) = Canonicalize(c)

\* one pattern element against one character
ElemMatches(e, c) == IF e = DIGIT THEN IsDigit(c) ELSE Canonicalize(e) = Canonicalize(c)

\* the pattern matches the characters of w that start at 0-based index i
MatchesAt(p, w, i) ==
    /\ i >= 0
    /\ i + Len(p) <= Len(w)
    /\ \A k \in 1..Len(p) : ElemMatches(p[k], w[i + k])

\* the unanchored pattern occurs somewhere in w
Occurs(p, w) == \E i \in 0..Len(w) : MatchesAt(p, w, i)

\* RegExp.prototype.test of a global pattern: the search starts at lastIndex,
\* a match leaves lastIndex at its end, a failure resets it to 0
test(p, w, li) ==
    LET starts == {i \in li..Len(w) : MatchesAt(p, w, i)}
    IN IF starts = {}
       THEN [ok |-> FALSE, lastIndex |-> 0]
       ELSE [ok |-> TRUE, lastIndex |-> Min(starts) + Len(p)]

(***************************************************************************)
(* The host editor: lines, positions, getRange, replaceRange, setCursor.   *)
(***************************************************************************)
Newlines(v) == {i \in 1..Len(v) : v[i] = NL}
LineCount(v) == Cardinality(Newlines(v)) + 1
\* offset of the first character of 0-based line l
LineFrom(v, l) ==
    IF l = 0 THEN 0
    ELSE CHOOSE i \in Newlines(v) : Cardinality({j \in Newlines(v) : j < i}) = l - 1
LineTo(v, l) ==
    IF l + 1 >= LineCount(v) THEN Len(v) ELSE LineFrom(v, l + 1) - 1
LineText(v, l) == SubSeq(v, LineFrom(v, l) + 1, LineTo(v, l))

Pos(l, c) == [line |-> l, ch |-> c]

\* a column outside the line is brought back into it
ClipCh(len, ch, mode) ==
    IF ch > len THEN len
    ELSE IF ch >= 0 THEN ch
    ELSE IF mode = "fromEnd" THEN Max({0, len + ch})
    ELSE 0

posToOffset(v, pos, mode) ==
    IF pos.line < 0 THEN 0
    ELSE IF pos.line >= LineCount(v) THEN Len(v)
    ELSE LineFrom(v, pos.line)
         + ClipCh(LineTo(v, pos.line) - LineFrom(v, pos.line), pos.ch, mode)

offsetToPos(v, off) ==
    LET l == Cardinality({i \in Newlines(v) : i <= off})
    IN Pos(l, off - LineFrom(v, l))

getRange(v, from, to, mode) ==
    SubSeq(v, posToOffset(v, from, mode) + 1, posToOffset(v, to, mode))

\* where an offset lands after [from, to) was replaced by ins characters
MapOffset(off, from, to, ins) ==
    IF off < from THEN off
    ELSE IF off < to \/ (off = to /\ from = to) THEN from
    ELSE from + ins + (off - to)

\* the editor [value, cursor] after replaceRange(text, from, to)
replaceRange(ed, text, from, to, mode) ==
    LET f == posToOffset(ed.value, from, mode)
        t0 == posToOffset(ed.value, to, mode)
        t == IF t0 < f THEN f ELSE t0
        v == SubSeq(ed.value, 1, f) \o text \o SubSeq(ed.value, t + 1, Len(ed.value))
        c == MapOffset(posToOffset(ed.value, ed.cursor, mode), f, t, Len(text))
    IN [value |-> v, cursor |-> offsetToPos(v, c)]

\* the editor after setCursor(pos)
setCursor(ed, pos, mode) ==
    [value |-> ed.value, cursor |-> offsetToPos(ed.value, posToOffset(ed.value, pos, mode))]

(***************************************************************************)
(* String.prototype.split with the two separators the plugin uses.         *)
(***************************************************************************)
\* /\n|\${2}/ : one newline, or two consecutive dollar signs
LineSep(s, i) ==
    IF s[i] = NL THEN 1
    ELSE IF s[i] = "$" /\ i + 1 <= Len(s) /\ s[i + 1] = "$" THEN 2
    ELSE 0

\* /\s+/ : a maximal run of white space
SpaceSep(s, i) ==
    IF ~IsSpace(s[i]) THEN 0
    ELSE Min({k \in 1..(Len(s) - i + 1) : i + k > Len(s) \/ ~IsSpace(s[i + k])})

\* the length of the separator of `re` that starts at 1-based index i, 0 when none does
SepLen(re, s, i) == IF re = "lines" THEN LineSep(s, i) ELSE SpaceSep(s, i)

RECURSIVE SplitFrom(_, _, _, _)
\* s.split(re) from 1-based index i on: the leftmost match of `re` at or after
\* i closes a segment, and the scan goes on behind it; acc holds the segments
\* already closed
SplitFrom(re, s, i, acc) ==
    LET hits == {j \in i..Len(s) : SepLen(re, s, j) > 0}
    IN IF hits = {} THEN Append(acc, SubSeq(s, i, Len(s)))
       ELSE LET j == Min(hits)
            IN SplitFrom(re, s, j + SepLen(re, s, j), Append(acc, SubSeq(s, i, j - 1)))

split(s, re) == SplitFrom(re, s, 1, << >>)

(***************************************************************************)
(* updateLineCount(fileContent).  fileContent is [defined, text]; the      *)
(* result is the status bar element after the call.                        *)
(***************************************************************************)
Undefined == [defined |-> FALSE, text |-> << >>]
NotCalled == [defined |-> FALSE, text |-> <<"-">>]
Content(t) == [defined |-> TRUE, text |-> t]
linesLabel == <<"L", "i", "n", "e", "s", ":", " ">>

updateLineCount(item, fileContent) ==
    IF ~fileContent.defined \/ fileContent.text = << >>
    THEN [item EXCEPT !.hidden = TRUE]
    ELSE LET lines == split(fileContent.text, "lines")
             amount == IF Last(lines) = << >> THEN Len(lines) - 1 ELSE Len(lines)
         IN [item EXCEPT !.hidden = FALSE, !.text = linesLabel \o Decimal(amount)]

(***************************************************************************)
(* The expansions of mathSimplifier's switch.                              *)
(***************************************************************************)
arrayOpen == <<"\\", "b", "e", "g", "i", "n", "{", "a", "r", "r", "a", "y", "}", "{">>
arrayClose == <<"}", "\\", "e", "n", "d", "{", "a", "r", "r", "a", "y", "}">>
matrixOpen == <<"M", "_", "{">>
matrixClose == <<"}", " ", "=", " ", "\\", "p", "m", "a", "t", "r", "i", "x", "{", "}">>
parsWord == <<"\\", "l", "e", "f", "t", "(", "\\", "r", "i", "g", "h", "t", ")">>
fence == <<BT, BT, BT>>
fenceBody == <<NL, NL, BT, BT, BT>>
sysWord == <<"\\", "b", "e", "g", "i", "n", "{", "c", "a", "s", "e", "s", "}",
             "\\", "e", "n", "d", "{", "c", "a", "s", "e", "s", "}">>
defnWord == <<"\\", "s", "t", "a", "c", "k", "r", "e", "l", "{", "}", "{", "}">>
fenceTag ==
    [index \in 3..8 |->
        CASE index = 3 -> << >>
          [] index = 4 -> <<"j", "s">>
          [] index = 5 -> <<"p", "y", "t", "h", "o", "n">>
          [] index = 6 -> <<"c", "p", "p">>
          [] index = 7 -> <<"j", "a", "v", "a">>
          [] index = 8 -> <<"p", "s", "e", "u", "d", "o", "c", "o", "d", "i", "c", "e">>]

\* faulty variant: one centred column too many
arrayColumnsOffByOne(wordBeforeCursor) ==
    LET amount == Number(Last(wordBeforeCursor))
    IN IF ~amount.nan /\ amount.n > 0
       THEN Repeat("c", amount.n) \o <<"|", "c">>
       ELSE << >>

\* case 0: the column specification of arr[n]
arrayColumns(wordBeforeCursor) ==
    LET amount == Number(Last(wordBeforeCursor))
    IN IF ~amount.nan /\ amount.n > 0
       THEN Repeat("c", amount.n - 1) \o <<"|", "c">>
       ELSE << >>

newWord(index, wordBeforeCursor) ==
    CASE index = 0 -> arrayOpen \o arrayColumns(wordBeforeCursor) \o arrayClose
      [] index = 1 -> matrixOpen
                      \o NumberText(Number(wordBeforeCursor[Len(wordBeforeCursor) - 2]))
                      \o <<",">>
                      \o NumberText(Number(Last(wordBeforeCursor)))
                      \o matrixClose
      [] index = 2 -> parsWord
      [] index \in 3..8 -> fence \o fenceTag[index] \o fenceBody
      [] index = 9 -> sysWord
      [] index = 10 -> defnWord

\* the number of columns before the cursor each case replaces
backward == <<4, 4, 5, 5, 7, 7, 8, 9, 8, 4, 5>>
startPos(index, cursorPos) == Pos(cursorPos.line, cursorPos.ch - backward[index + 1])

\* faulty variant: no case calls setCursor
movesCursorNever(index) == FALSE

\* the cases that call setCursor, and the position they give it
movesCursor(index) == index # 1
cursorBack ==
    [index \in {0, 2, 9, 10} |->
        CASE index = 0 -> 11 + 5
          [] index = 2 -> 7 + 5
          [] index = 9 -> 10 + 5
          [] index = 10 -> 3 + 5]
\* faulty variant: the fenced cases stay on the cursor's line
newCursorPosSameLine(index, cursorPos) ==
    IF index \in 3..8
    THEN Pos(cursorPos.line, 0)
    ELSE Pos(cursorPos.line, cursorPos.ch - cursorBack[index])

newCursorPos(index, cursorPos) ==
    IF index \in 3..8
    THEN Pos(cursorPos.line + 1, 0)
    ELSE Pos(cursorPos.line, cursorPos.ch - cursorBack[index])

(***************************************************************************)
(* mathSimplifier(editor).                                                 *)
(***************************************************************************)
\* the last word before the cursor
wordBeforeCursor(v, cursorPos, mode) ==
    Last(split(getRange(v, Pos(cursorPos.line, 0), cursorPos, mode), "spaces"))

\* The handler works on a record st:
\*   value, cursor, lastIndex   the editor and the RegExp objects
\*   ops, calls                 the replaceRange and setCursor calls made
\*   inside, at                 the handler is inside the replaceRange call of
\*                              case `at`: the host is running the handler of
\*                              the editor-change event that call raised

\* what a case does once its replaceRange call has returned
afterReplace(st, index, cursorPos, mode) ==
    IF ~movesCursor(index) THEN st
    ELSE LET pos == newCursorPos(index, cursorPos)
         IN [st EXCEPT !.cursor = setCursor([value |-> st.value, cursor |-> st.cursor],
                                            pos, mode).cursor,
                       !.calls = Append(@, pos)]

\* one call of the forEach callback, in the handler running at nesting depth
forEachBody(st, index, word, cursorPos, depth, mode, disp) ==
    IF word = << >> \/ st.inside THEN st
    ELSE LET r == test(pattern(index), word, st.lastIndex[index])
             li == [st.lastIndex EXCEPT ![index] = r.lastIndex]
         IN IF ~r.ok THEN [st EXCEPT !.lastIndex = li]
            ELSE LET text == newWord(index, word)
                     from == startPos(index, cursorPos)
                     ed1 == replaceRange([value |-> st.value, cursor |-> st.cursor],
                                         text, from, cursorPos, mode)
                     st1 == [st EXCEPT !.value = ed1.value,
                                       !.cursor = ed1.cursor,
                                       !.lastIndex = li,
                                       !.ops = Append(@, [index |-> index, text |-> text,
                                                          from |-> from, to |-> cursorPos,
                                                          depth |-> depth])]
                 IN IF disp = "nested"
                    THEN [st1 EXCEPT !.inside = TRUE, !.at = index]
                    ELSE afterReplace(st1, index, cursorPos, mode)

RECURSIVE forEach(_, _, _, _, _, _, _, _)
\* patterns.forEach over the indexes lo..hi, in list order: first the lower
\* half of the range, then the upper half on the state the lower half left
forEach(st, lo, hi, word, cursorPos, depth, mode, disp) ==
    IF lo = hi THEN forEachBody(st, lo, word, cursorPos, depth, mode, disp)
    ELSE Only({forEach(half, ((lo + hi) \div 2) + 1, hi, word, cursorPos, depth, mode, disp) :
               half \in {forEach(st, lo, (lo + hi) \div 2, word, cursorPos,
                                 depth, mode, disp)}})

\* mathSimplifier from its first line up to its end, or up to the first
\* replaceRange call inside which the host runs another handler
mathSimplifier(st, depth, mode, disp) ==
    forEach(st, 0, Len(patterns) - 1, wordBeforeCursor(st.value, st.cursor, mode),
            st.cursor, depth, mode, disp)

\* mathSimplifier from the return of the replaceRange call of frame f on
resume(st, f, depth, mode, disp) ==
    IF f.index = Len(patterns) - 1
    THEN afterReplace(st, f.index, f.cursorPos, mode)
    ELSE Only({forEach(back, f.index + 1, Len(patterns) - 1, f.word, f.cursorPos,
                       depth, mode, disp) :
               back \in {afterReplace(st, f.index, f.cursorPos, mode)}})

(***************************************************************************)
(* State machine.                                                          *)
(***************************************************************************)
NoFile == "none"
Files == {"A", "B"}
HostModes == {"clamp", "fromEnd"}
DispatchModes == {"queued", "nested"}

NoHistory ==
    [valid |-> FALSE, first |-> FALSE, user |-> FALSE, value |-> << >>,
     cursor |-> Pos(0, 0), lastIndex |-> [i \in Indexes |-> 0], word |-> << >>,
     ops |-> << >>, calls |-> << >>, runs |-> 0]

\* no handler is running
Idle == stack = << >>
\* the state a stretch of mathSimplifier starts from
Entry(v, c) ==
    [value |-> v, cursor |-> c, lastIndex |-> lastIndex, ops |-> << >>,
     calls |-> << >>, inside |-> FALSE, at |-> 0]
\* the frame of a handler that waits inside replaceRange: the case it is in and
\* the locals of mathSimplifier; raised: the host has yet to run the handler of
\* the event this call raised
Frame(st, word, cursorPos) ==
    [index |-> st.at, word |-> word, cursorPos |-> cursorPos, raised |-> TRUE]

\* the "editor-change" handler starts on the editor state (v, c), above the
\* waiting handlers `under`: updateLineCount(content), then mathSimplifier
editorChange(v, c, under, byUser) ==
    \E st \in {mathSimplifier(Entry(v, c), Len(under), negColumn, dispatch)} :
       /\ statusBarItem' = updateLineCount(statusBarItem, Content(v))
       /\ lastArg' = Content(v)
       /\ value' = st.value
       /\ cursor' = st.cursor
       /\ lastIndex' = st.lastIndex
       /\ stack' = IF st.inside
                   THEN Append(under, Frame(st, wordBeforeCursor(v, c, negColumn), c))
                   ELSE under
       /\ pending' = (IF byUser \/ under # << >> THEN pending ELSE pending - 1)
                     + (IF dispatch = "queued" THEN Len(st.ops) ELSE 0)
       /\ h' = IF under = << >>
               THEN [valid |-> TRUE, first |-> ~h.valid, user |-> byUser, value |-> v,
                     cursor |-> c, lastIndex |-> lastIndex,
                     word |-> wordBeforeCursor(v, c, negColumn),
                     ops |-> st.ops, calls |-> st.calls, runs |-> 1]
               ELSE [h EXCEPT !.ops = @ \o st.ops, !.calls = @ \o st.calls,
                              !.runs = @ + 1]

\* the user changes the buffer of the active document to one of `inputs`
UserEdit(inputs) ==
    /\ activeFile # NoFile
    /\ Idle
    /\ pending = 0
    /\ events < MaxEvents
    /\ \E in \in inputs : editorChange(in.value, in.cursor, << >>, TRUE)
    /\ events' = events + 1
    /\ chain' = 0
    /\ UNCHANGED << activeFile, vault, reads, nextRead, negColumn, dispatch >>

\* the host holds an editor-change event raised by a replacement, after the
\* handler that made it has returned
Raised == Idle /\ pending > 0 /\ chain < MaxChain

\* an editor-change event the host raises after the handler that made the
\* replacement has returned
ReentrantChange ==
    /\ Raised
    /\ editorChange(value, cursor, << >>, FALSE)
    /\ chain' = chain + 1
    /\ UNCHANGED << activeFile, vault, reads, nextRead, events, negColumn, dispatch >>

\* the host is inside a replaceRange call and raises its editor-change event
RaisedInside == ~Idle /\ Last(stack).raised /\ chain < MaxChain

\* an editor-change event the host raises inside replaceRange: the handler
\* runs while the handler that made the replacement waits in the call
NestedChange ==
    /\ RaisedInside
    /\ editorChange(value, cursor, [stack EXCEPT ![Len(stack)].raised = FALSE], FALSE)
    /\ chain' = chain + 1
    /\ UNCHANGED << activeFile, vault, reads, nextRead, events, negColumn, dispatch >>

\* the handler that ran inside a replaceRange call has returned
Returned == ~Idle /\ ~Last(stack).raised

\* replaceRange returns to the handler that called it, which goes on: setCursor,
\* then the rest of the forEach
Resume ==
    /\ Returned
    /\ \E st \in {resume(Entry(value, cursor), Last(stack), Len(stack) - 1,
                         negColumn, dispatch)} :
          /\ value' = st.value
          /\ cursor' = st.cursor
          /\ lastIndex' = st.lastIndex
          /\ stack' = IF st.inside
                      THEN [stack EXCEPT ![Len(stack)].index = st.at,
                                         ![Len(stack)].raised = TRUE]
                      ELSE SubSeq(stack, 1, Len(stack) - 1)
          /\ h' = [h EXCEPT !.ops = @ \o st.ops, !.calls = @ \o st.calls]
    /\ chain' = chain + 1
    /\ UNCHANGED << statusBarItem, activeFile, vault, reads, nextRead, pending, events,
                    negColumn, dispatch, lastArg >>

\* the expander has work left from the last user event
Busy == Raised \/ RaisedInside \/ Returned

(***************************************************************************)
(* The active-leaf-change handler and the host's save.                     *)
(***************************************************************************)
\* "active-leaf-change" with no active file: the handler ends at once
LeafChangeNoFile ==
    /\ Idle /\ pending = 0
    /\ activeFile' = NoFile
    /\ statusBarItem' = updateLineCount(statusBarItem, Undefined)
    /\ lastArg' = Undefined
    /\ value' = << >>
    /\ cursor' = Pos(0, 0)
    /\ UNCHANGED << lastIndex, vault, reads, nextRead, pending, events, chain, negColumn,
                    dispatch, stack, h >>

\* "active-leaf-change" with file f active: the handler stops at the await
LeafChangeFile ==
    /\ Idle /\ pending = 0
    /\ nextRead < MaxReads
    /\ \E f \in Files :
          /\ activeFile' = f
          /\ value' = vault[f]
          /\ reads' = reads \cup {[id |-> nextRead + 1, file |-> f]}
    /\ nextRead' = nextRead + 1
    /\ cursor' = Pos(0, 0)
    /\ UNCHANGED << lastIndex, statusBarItem, vault, pending, events, chain, negColumn,
                    dispatch,
                    stack, h, lastArg >>

\* a vault.read promise resolves and the handler that awaited it goes on
ReadDone ==
    /\ Idle
    /\ \E r \in reads :
          /\ statusBarItem' = updateLineCount(statusBarItem, Content(vault[r.file]))
          /\ lastArg' = Content(vault[r.file])
          /\ reads' = reads \ {r}
    /\ UNCHANGED << value, cursor, lastIndex, activeFile, vault, nextRead, pending,
                    events, chain, negColumn, dispatch, stack, h >>

\* onunload: the status bar element is removed; the handlers registered with
\* workspace.on stay registered
onunload ==
    /\ Idle /\ pending = 0
    /\ statusBarItem.attached
    /\ statusBarItem' = [statusBarItem EXCEPT !.attached = FALSE]
    /\ lastArg' = NotCalled
    /\ UNCHANGED << value, cursor, lastIndex, activeFile, vault, reads, nextRead,
                    pending, events, chain, negColumn, dispatch, stack, h >>

\* the host writes the buffer of the active document to the vault
Save ==
    /\ Idle
    /\ activeFile # NoFile
    /\ vault[activeFile] # value
    /\ vault' = [vault EXCEPT ![activeFile] = value]
    /\ UNCHANGED << value, cursor, lastIndex, statusBarItem, activeFile, reads,
                    nextRead, pending, events, chain, negColumn, dispatch, stack, h, lastArg >>

(***************************************************************************)
(* Inputs: the buffers and cursors a user edit may leave behind.           *)
(***************************************************************************)
\* the buffer before \o token \o after with the cursor right after the token
Typed(before, token, after) ==
    [value |-> before \o token \o after,
     cursor |-> offsetToPos(before \o token \o after, Len(before) + Len(token))]

tArr0 == <<"a", "r", "r", "0">>
tArr1 == <<"a", "r", "r", "1">>
tArr3 == <<"a", "r", "r", "3">>
tArr5 == <<"a", "r", "r", "5">>
tArr9 == <<"A", "R", "R", "9">>
tM25 == <<"m", "2", ",", "5">>
tM07 == <<"M", "0", ",", "7">>
tPars == <<"\\", "p", "a", "r", "s">>
tCode == <<"\\", "c", "o", "d", "e">>
tJs == <<"\\", "p", "r", "g", ":", "j", "s">>
tPy == <<"\\", "p", "r", "g", ":", "p", "y">>
tCpp == <<"\\", "p", "r", "g", ":", "c", "p", "p">>
tJava == <<"\\", "p", "r", "g", ":", "j", "a", "v", "a">>
tPsc == <<"\\", "P", "R", "G", ":", "p", "s", "c">>
tSys == <<"\\", "s", "y", "s">>
tDefn == <<"\\", "d", "e", "f", "n">>
Triggers == {tArr0, tArr1, tArr3, tArr5, tArr9, tM25, tM07, tPars, tCode, tJs, tPy,
             tCpp, tJava, tPsc, tSys, tDefn}

tHello == <<"h", "e", "l", "l", "o">>
tSysArr == <<"\\", "s", "y", "s", "a", "r", "r", "3">>
tArrSys == <<"a", "r", "r", "3", "\\", "s", "y", "s">>
tCodeSys == <<"\\", "c", "o", "d", "e", "\\", "s", "y", "s">>
tSysDefn == <<"\\", "s", "y", "s", "\\", "d", "e", "f", "n">>
tArrX == <<"a", "r", "r", "3", "x">>
tArrSysTail == <<"a", "r", "r", "3", "\\", "s", "y", "s", "x", "x", "x", "x", "x">>
Compound == {tSysArr, tArrSys, tCodeSys, tSysDefn, tArrX, tArrSysTail}
\* tokens one character away from a trigger
NearMisses == {<<"a", "r", "r", "x">>, <<"m", "2", ".", "5">>, <<"\\", "p", "a", "r">>,
               <<"p", "r", "g", ":", "j", "s">>}

pLong == <<"0", "1", "2", "3", "4", "5", "6", "7", "8", "9", "a", "b", " ">>
pWord == <<"x", " ">>
pLine == <<"a", "b", NL>>
sWord == <<"z">>
sLine == <<NL, "n", "e", "x", "t">>

ExpanderInputs ==
    {Typed(<< >>, t, << >>) : t \in Triggers \cup Compound \cup NearMisses \cup {tHello, << >>}}
    \cup {Typed(pWord, t, sWord) : t \in {tArr3, tM25, tCode, tSys, tSysArr, tHello, << >>}}
    \cup {Typed(pLine, t, sLine) : t \in {tCode, tPy, tPsc, tSys, tSysArr, tHello}}
    \cup {Typed(pLong, t, << >>) : t \in {tArr3, tPars, tSys, tDefn}}
    \cup {Typed(<<"a", TAB, "b", TAB>>, << >>, <<"c">>)}
    \* white space other than the blank after or between the words
    \cup {Typed(tArr3 \o <<c>>, << >>, << >>) : c \in {NBSP, CR, FF, VT, "U+3000"}}
    \cup {Typed(tArr3 \o <<NBSP>>, tSys, << >>)}

CounterInputs ==
    {[value |-> t, cursor |-> Pos(0, 0)] :
        t \in {<< >>, <<"a", NL, "b">>, <<"a", "$", "$", "b", "$", "$">>,
               <<"$", "$", "$">>, <<NL, NL>>, <<"a", "$", NL, "$", "b">>}}

(***************************************************************************)
(* Specifications.                                                         *)
(***************************************************************************)
Init ==
    /\ activeFile = "A"
    /\ vault = [f \in Files |-> IF f = "A" THEN <<"a", NL, "b", NL>> ELSE <<"x", "$", "$", "y">>]
    /\ value = vault["A"]
    /\ cursor = Pos(0, 0)
    /\ lastIndex = [i \in Indexes |-> 0]
    /\ statusBarItem = [hidden |-> FALSE, text |-> << >>, attached |-> TRUE]
    /\ reads = {}
    /\ nextRead = 0
    /\ pending = 0
    /\ events = 0
    /\ chain = 0
    /\ negColumn \in HostModes
    /\ dispatch \in DispatchModes
    /\ stack = << >>
    /\ h = NoHistory
    /\ lastArg = NotCalled

\* the trigger expander: user edits and the edits the expander itself raises.
\* mathSimplifier never reads the status bar element, so the expander runs the
\* same before and after onunload; onunload is a step of the line counter below.
Next == UserEdit(ExpanderInputs) \/ ReentrantChange \/ NestedChange \/ Resume
Spec == Init /\ [][Next]_vars
\* the host dispatches every editor-change event it has raised and every call
\* returns.  The handler is total, so ReentrantChange, NestedChange and Resume
\* are enabled exactly when Raised, RaisedInside and Returned hold, no two of
\* them at once, and the steps of Next that advance chain are their steps: the
\* condition below is weak fairness of each of the three, stated on the guards.
SpecFair == Spec /\ WF_chain(Busy /\ chain' = chain + 1)

\* the line counter: edits, document switches, reads and saves
NextCounter ==
    UserEdit(CounterInputs) \/ LeafChangeNoFile \/ LeafChangeFile \/ ReadDone \/ Save
    \/ onunload
SpecCounter == Init /\ [][NextCounter]_vars

(***************************************************************************)
(* Properties.  h describes the last editor-change event: the buffer,      *)
(* cursor and word it started from, the replaceRange calls (ops) and the   *)
(* setCursor calls (calls) it made.                                        *)
(***************************************************************************)
\* the word is, letter case aside, exactly the trigger of rule index
ExactTrigger(w, index) == Len(w) = Len(pattern(index)) /\ MatchesAt(pattern(index), w, 0)
\* the replaceRange calls the handler of the last event made itself
OwnOps == SelectSeq(h.ops, LAMBDA o : o.depth = 0)
\* rule index made a replacement in the handler of the last event
Fired(index) == \E k \in 1..Len(OwnOps) : OwnOps[k].index = index
\* the status bar element is in the status bar and not hidden
Shown == statusBarItem.attached /\ ~statusBarItem.hidden
\* offsets in h.value of the token right before the cursor
TokenTo == LineFrom(h.value, h.cursor.line) + h.cursor.ch
TokenFrom == TokenTo - Len(h.word)

\* the rule catalog, written out: trigger and expansion
Catalog ==
    { << <<"a", "r", "r", "0">>,
         <<"\\", "b", "e", "g", "i", "n", "{", "a", "r", "r", "a", "y", "}", "{", "}", "\\", "e", "n", "d", "{", "a", "r", "r", "a", "y", "}">> >>,
      << <<"a", "r", "r", "1">>,
         <<"\\", "b", "e", "g", "i", "n", "{", "a", "r", "r", "a", "y", "}", "{", "|", "c", "}", "\\", "e", "n", "d", "{", "a", "r", "r", "a", "y", "}">> >>,
      << <<"a", "r", "r", "3">>,
         <<"\\", "b", "e", "g", "i", "n", "{", "a", "r", "r", "a", "y", "}", "{", "c", "c", "|", "c", "}", "\\", "e", "n", "d", "{", "a", "r", "r", "a", "y", "}">> >>,
      << <<"a", "r", "r", "5">>,
         <<"\\", "b", "e", "g", "i", "n", "{", "a", "r", "r", "a", "y", "}", "{", "c", "c", "c", "c", "|", "c", "}", "\\", "e", "n", "d", "{", "a", "r", "r", "a", "y", "}">> >>,
      << <<"A", "R", "R", "9">>,
         <<"\\", "b", "e", "g", "i", "n", "{", "a", "r", "r", "a", "y", "}", "{", "c", "c", "c", "c", "c", "c", "c", "c", "|", "c", "}", "\\", "e", "n", "d", "{", "a", "r", "r", "a", "y", "}">> >>,
      << <<"m", "2", ",", "5">>,
         <<"M", "_", "{", "2", ",", "5", "}", " ", "=", " ", "\\", "p", "m", "a", "t", "r", "i", "x", "{", "}">> >>,
      << <<"M", "0", ",", "7">>,
         <<"M", "_", "{", "0", ",", "7", "}", " ", "=", " ", "\\", "p", "m", "a", "t", "r", "i", "x", "{", "}">> >>,
      << <<"\\", "p", "a", "r", "s">>,
         <<"\\", "l", "e", "f", "t", "(", "\\", "r", "i", "g", "h", "t", ")">> >>,
      << <<"\\", "c", "o", "d", "e">>,
         <<BT, BT, BT, NL, NL, BT, BT, BT>> >>,
      << <<"\\", "p", "r", "g", ":", "j", "s">>,
         <<BT, BT, BT, "j", "s", NL, NL, BT, BT, BT>> >>,
      << <<"\\", "p", "r", "g", ":", "p", "y">>,
         <<BT, BT, BT, "p", "y", "t", "h", "o", "n", NL, NL, BT, BT, BT>> >>,
      << <<"\\", "p", "r", "g", ":", "c", "p", "p">>,
         <<BT, BT, BT, "c", "p", "p", NL, NL, BT, BT, BT>> >>,
      << <<"\\", "p", "r", "g", ":", "j", "a", "v", "a">>,
         <<BT, BT, BT, "j", "a", "v", "a", NL, NL, BT, BT, BT>> >>,
      << <<"\\", "P", "R", "G", ":", "p", "s", "c">>,
         <<BT, BT, BT, "p", "s", "e", "u", "d", "o", "c", "o", "d", "i", "c", "e", NL, NL, BT, BT, BT>> >>,
      << <<"\\", "s", "y", "s">>,
         <<"\\", "b", "e", "g", "i", "n", "{", "c", "a", "s", "e", "s", "}", "\\", "e", "n", "d", "{", "c", "a", "s", "e", "s", "}">> >>,
      << <<"\\", "d", "e", "f", "n">>,
         <<"\\", "s", "t", "a", "c", "k", "r", "e", "l", "{", "}", "{", "}">> >> }

\* C1: on the first editor-change event after load, a word before the cursor
\* that is exactly one trigger gets exactly one replaceRange, over the
\* token's own columns, with the catalog expansion, and nothing else changes.
C1_RuleCatalog ==
    (Idle /\ h.valid /\ h.first /\ \E i \in Indexes : ExactTrigger(h.word, i)) =>
        /\ Len(h.ops) = 1
        /\ h.ops[1].from = Pos(h.cursor.line, h.cursor.ch - Len(h.word))
        /\ h.ops[1].to = h.cursor
        /\ SubSeq(h.value, TokenFrom + 1, TokenTo) = h.word
        /\ \E entry \in Catalog : entry[1] = h.word /\ entry[2] = h.ops[1].text
        /\ value = SubSeq(h.value, 1, TokenFrom) \o h.ops[1].text
                   \o SubSeq(h.value, TokenTo + 1, Len(h.value))

C1_Witness ==
    /\ Idle /\ h.valid /\ h.first
    /\ h.value = pWord \o tM25 \o sWord
    /\ Len(h.ops) = 1
    /\ value = pWord \o <<"M", "_", "{", "2", ",", "5", "}", " ", "=", " ",
                          "\\", "p", "m", "a", "t", "r", "i", "x", "{", "}">> \o sWord

\* C2: on every event a rule fires exactly when the word before the cursor
\* contains a match of its pattern, whatever earlier events tested.
C2_NoStateBetweenEvents ==
    (Idle /\ h.valid /\ h.user) =>
        \A i \in Indexes : Fired(i) <=> (h.word # << >> /\ Occurs(pattern(i), h.word))

\* the columns, counted from the start of the insertion, between the empty
\* delimiters of the expansion of rule index
InsideDelimiters(index, text) ==
    CASE index = 0 -> 14..(Len(text) - 12)
      [] index = 2 -> {6}
      [] index = 9 -> {13}
      [] index = 10 -> {10}

\* C3: after arr<N>, \pars, \sys or \defn was expanded the cursor is on the
\* same line, inside the inserted text, between its empty delimiters.
C3_CursorInsideDelimiters ==
    \A i \in {0, 2, 9, 10} :
        (Idle /\ h.valid /\ ExactTrigger(h.word, i) /\ Len(h.ops) = 1) =>
            /\ cursor.line = h.cursor.line
            /\ (cursor.ch - (h.cursor.ch - Len(h.word))) \in InsideDelimiters(i, h.ops[1].text)

RECURSIVE SeparatorsFrom(_, _)
\* [n, atEnd]: the number of line separators of s from index i on, and whether
\* the last one ends the text
SeparatorsFrom(s, i) ==
    IF i > Len(s) THEN [n |-> 0, atEnd |-> FALSE]
    ELSE LET two == s[i] = "$" /\ i < Len(s) /\ s[i + 1] = "$"
             one == s[i] = NL
             step == IF two THEN 2 ELSE 1
             rest == SeparatorsFrom(s, i + step)
         IN IF one \/ two
            THEN [n |-> rest.n + 1, atEnd |-> IF rest.n = 0 THEN i + step > Len(s) ELSE rest.atEnd]
            ELSE rest
\* segments of the split, less one when the final segment is empty
ExpectedLines(s) ==
    LET r == SeparatorsFrom(s, 1) IN IF r.atEnd THEN r.n ELSE r.n + 1

\* C4: a non-empty text given to the line counter shows "Lines: n", n the
\* number of segments between newlines and double dollars, less one for an
\* empty final segment; undefined content hides the display.
C4_LineCount ==
    /\ (lastArg.defined /\ lastArg.text # << >>) =>
            /\ Shown
            /\ statusBarItem.text = <<"L", "i", "n", "e", "s", ":", " ">>
                                    \o Decimal(ExpectedLines(lastArg.text))
    /\ lastArg = Content(<<"a", NL, "b", NL>>) =>
            statusBarItem.text = <<"L", "i", "n", "e", "s", ":", " ", "2">>
    /\ lastArg = Undefined => ~Shown

\* C5: the empty text of an active document shows "Lines: 1".
C5_EmptyDocumentShown ==
    lastArg = Content(<< >>) =>
        /\ Shown
        /\ statusBarItem.text = <<"L", "i", "n", "e", "s", ":", " ", "1">>

\* the language tag of the fenced rules, as the catalog gives it
ExpectedTag(index) ==
    CASE index = 3 -> << >>
      [] index = 4 -> <<"j", "s">>
      [] index = 5 -> <<"p", "y", "t", "h", "o", "n">>
      [] index = 6 -> <<"c", "p", "p">>
      [] index = 7 -> <<"j", "a", "v", "a">>
      [] index = 8 -> <<"p", "s", "e", "u", "d", "o", "c", "o", "d", "i", "c", "e">>

\* C6: after \code or \prg:<lang> on line L was expanded, line L ends with the
\* opening fence and its tag, line L+1 is empty, line L+2 starts with the
\* closing fence, and the cursor is at column 0 of line L+1.
C6_FencedBlock ==
    \A i \in 3..8 :
        (Idle /\ h.valid /\ ExactTrigger(h.word, i) /\ Len(h.ops) >= 1) =>
            LET L == h.cursor.line
                before == SubSeq(h.value, LineFrom(h.value, L) + 1, TokenFrom)
                after == SubSeq(h.value, TokenTo + 1, LineTo(h.value, L))
            IN /\ LineCount(value) = LineCount(h.value) + 2
               /\ LineText(value, L) = before \o <<BT, BT, BT>> \o ExpectedTag(i)
               /\ LineText(value, L + 1) = << >>
               /\ LineText(value, L + 2) = <<BT, BT, BT>> \o after
               /\ cursor = Pos(L + 1, 0)

C6_Witness ==
    /\ Idle /\ h.valid
    /\ h.value = pLine \o tPy \o sLine
    /\ Len(h.ops) = 1
    /\ LineText(value, 1) = <<BT, BT, BT, "p", "y", "t", "h", "o", "n">>
    /\ cursor = Pos(2, 0)

\* the words the catalog's triggers stand for, in lower case
TriggerWords ==
    {<<"a", "r", "r", d>> : d \in {Digits[k] : k \in 1..10}}
    \cup {<<"m", d[1], ",", d[2]>> : d \in {Digits[k] : k \in 1..10} \X {Digits[k] : k \in 1..10}}
    \cup {<<"\\", "p", "a", "r", "s">>, <<"\\", "c", "o", "d", "e">>,
          <<"\\", "p", "r", "g", ":", "j", "s">>, <<"\\", "p", "r", "g", ":", "p", "y">>,
          <<"\\", "p", "r", "g", ":", "c", "p", "p">>,
          <<"\\", "p", "r", "g", ":", "j", "a", "v", "a">>,
          <<"\\", "p", "r", "g", ":", "p", "s", "c">>, <<"\\", "s", "y", "s">>,
          <<"\\", "d", "e", "f", "n">>}
\* w, in lower case, contains one of the trigger words
ContainsTrigger(w) ==
    \E i \in 1..Len(w) : \E j \in i..Len(w) :
        [k \in 1..(j - i + 1) |-> Canonicalize(w[i + k - 1])] \in TriggerWords

\* C7: an event whose word before the cursor is empty or contains no match of
\* any pattern makes no replaceRange and no setCursor call.
C7_NoMatchNoChange ==
    (Idle /\ h.valid /\ (h.word = << >> \/ ~ContainsTrigger(h.word))) =>
        /\ h.ops = << >>
        /\ h.calls = << >>
        /\ value = h.value
        /\ cursor = h.cursor

C7_Witness ==
    /\ Idle /\ h.valid /\ h.user
    /\ h.word = tHello
    /\ h.value = pWord \o tHello \o sWord
    /\ value = h.value
    /\ cursor = Pos(0, 7)

\* C8: a word that contains matches of k >= 2 patterns gets exactly k
\* replacements in one event, in list order, each over the columns counted
\* back from the cursor read at the start of the event.
C8_EveryMatchFires ==
    LET matching == {i \in Indexes : Occurs(pattern(i), h.word)}
    IN (Idle /\ h.valid /\ h.user /\ Cardinality(matching) >= 2) =>
           /\ Len(OwnOps) = Cardinality(matching)
           /\ \A k \in 1..Len(OwnOps) :
                 /\ OwnOps[k].index \in matching
                 /\ OwnOps[k].to = h.cursor
                 /\ OwnOps[k].from = Pos(h.cursor.line,
                                         h.cursor.ch - Len(pattern(OwnOps[k].index)))
                 /\ \A l \in 1..Len(OwnOps) : k < l => OwnOps[k].index < OwnOps[l].index

\* C9: every chain of editor-change events raised by the expander's own
\* replacements comes to an end: handlers running inside one another return,
\* and the events the host has queued run out.
C9_ReentrancyTerminates == (~Idle \/ pending > 0) ~> (Idle /\ pending = 0)

C9_Witness ==
    /\ Idle /\ pending = 0
    /\ chain >= 10
    /\ Len(value) > Len(tArrSysTail) + 60

\* C10: once no read is pending the display is that of the active document:
\* hidden when there is none, else the line count of its text.
C10_DisplayFollowsActiveDocument ==
    (reads = {} /\ lastArg # NotCalled) =>
        IF activeFile = NoFile
        THEN statusBarItem.hidden
        ELSE statusBarItem = updateLineCount(statusBarItem, Content(value))

====
